---- MODULE Spec2Model ----
(***************************************************************************)
(* Model of src/goat_utils.py: the award-year extractor (parse_num_mvp),   *)
(* the two efficiency leaderboard extractors, the playoff outcome          *)
(* classifier (parse_team_playoff_result) and the combined ranker          *)
(* (rank_on_team).                                                         *)
(*                                                                         *)
(* Every function of the module is synchronous and keeps no state between  *)
(* calls, so each one is an action that draws its arguments, runs the      *)
(* whole function and records the arguments, the intermediate values the   *)
(* code names, and the outcome (a returned value or a raised exception).   *)
(*                                                                         *)
(* Text is a sequence of one-character strings where the code inspects     *)
(* characters (the awards cell), and a sequence of words separated by one  *)
(* blank where it only searches for phrases (the metadata paragraphs).     *)
(* Efficiency ratings are integers in tenths, weights in hundredths, their *)
(* products in thousandths, rounded scores and the margin in hundredths.   *)
(***************************************************************************)
EXTENDS Integers, Sequences, FiniteSets, TLC

VARIABLES
    pc,                 \* "idle" before the call, "done" after it
    \* parse_num_mvp
    rows, max_mvp, mvp_out,
    \* get_top_regular_season_per_players / get_top_playoff_per_players
    variant, table, top_n, players, lb_out,
    \* parse_team_playoff_result
    meta_div, playoff_out,
    \* rank_on_team
    org_url_id, reg_season, playoffs, season_per_weight, playoff_per_weight,
    co_margin, combined, sorted_players, ranks, player_rank

mvpVars  == <<rows, max_mvp, mvp_out>>
lbVars   == <<variant, table, top_n, players, lb_out>>
clsVars  == <<meta_div, playoff_out>>
rankVars == <<org_url_id, reg_season, playoffs, season_per_weight,
              playoff_per_weight, co_margin, combined, sorted_players,
              ranks, player_rank>>
vars     == <<pc, mvpVars, lbVars, clsVars, rankVars>>

\* Python's None where a string or a number is expected.
None == "None"

----------------------------------------------------------------------------
(* Generic sequence helpers.                                               *)

RECURSIVE SeqsUpTo(_, _)
\* All sequences over S of length at most n.
SeqsUpTo(S, n) ==
    IF n = 0 THEN {<<>>}
    ELSE LET shorter == SeqsUpTo(S, n - 1)
         IN  shorter \cup {Append(s, x) : s \in {t \in shorter : Len(t) = n - 1}, x \in S}

\* s[:n] of Python for n >= 0.
Take(s, n) == SubSeq(s, 1, IF n < Len(s) THEN n ELSE Len(s))

\* needle in hay, for sequences (Python's substring test).
Contains(hay, needle) ==
    \E k \in 0..(Len(hay) - Len(needle)) :
        \A j \in 1..Len(needle) : hay[k + j] = needle[j]

RECURSIVE Concat(_)
\* The concatenation of a sequence of sequences.
Concat(ss) == IF ss = <<>> THEN <<>> ELSE Head(ss) \o Concat(Tail(ss))

----------------------------------------------------------------------------
(* parse_num_mvp                                                           *)

MaxRows   == 2      \* rows of the per-game table
MaxTokens == 2      \* comma-separated tokens in an awards cell

\* Award tokens as they appear in the awards cell.
MVP1   == <<"M", "V", "P", "-", "1">>
MVP12  == <<"M", "V", "P", "-", "1", "2">>
DPOY2  == <<"D", "P", "O", "Y", "-", "2">>
AwardTokens == {MVP1, MVP12, DPOY2}

RECURSIVE Join(_)
\* ",".join(tokens)
Join(tokens) ==
    IF tokens = <<>> THEN <<>>
    ELSE IF Len(tokens) = 1 THEN tokens[1]
    ELSE tokens[1] \o <<",">> \o Join(Tail(tokens))

RECURSIVE Split(_, _)
\* text.split(sep) for a one-character separator: never empty, "" gives [""].
Split(text, sep) ==
    IF \A k \in 1..Len(text) : text[k] # sep THEN <<text>>
    ELSE LET p == CHOOSE k \in 1..Len(text) :
                      text[k] = sep /\ \A j \in 1..(k - 1) : text[j] # sep
         IN  <<SubSeq(text, 1, p - 1)>> \o Split(SubSeq(text, p + 1, Len(text)), sep)

Digits == <<"0", "1", "2", "3", "4", "5", "6", "7", "8", "9">>
IsDigit(c) == \E d \in 1..10 : Digits[d] = c
DigitVal(c) == (CHOOSE d \in 1..10 : Digits[d] = c) - 1

\* int(s) accepts a non-empty run of digits here; anything else is a ValueError.
IsInt(s) == Len(s) > 0 /\ \A k \in 1..Len(s) : IsDigit(s[k])

IntOfFirstDigit(s) == IF s = <<>> THEN 0 ELSE DigitVal(s[1])

RECURSIVE IntOf(_)
\* int(s) of a run of digits.
IntOf(s) == IF s = <<>> THEN 0 ELSE 10 * IntOf(SubSeq(s, 1, Len(s) - 1)) + DigitVal(s[Len(s)])

\* [award for award in awards.split(',') if 'MVP-' in award]
MvpAwards(awards) ==
    SelectSeq(Split(awards, ","), LAMBDA award : Contains(award, <<"M", "V", "P", "-">>))

\* mvp_award.split('-')[1]
RankText(mvp_award) == Split(mvp_award, "-")[2]

\* An optional text cell: select_one found no element, or found one with this text.
NoTag == [tag |-> FALSE, text |-> <<>>]
Tag(text) == [tag |-> TRUE, text |-> text]

\* A row of '#per_game_stats tr': year is the text of the year link or None,
\* awards_td the awards cell. tokens is not read by the code: it records the
\* award tokens the cell was written from.
MvpRow(year, awards_td, tokens) == [year |-> year, awards_td |-> awards_td, tokens |-> tokens]

\* Python truthiness of the two optional strings: year, and
\* awards = awards_td.text if awards_td else None.
Truthy(year) == year # None /\ year # ""
TruthyText(awards_td) == awards_td.tag /\ awards_td.text # <<>>

SeveralMvpOffByOne(mvp_awards) == Len(mvp_awards) > 2

\* len(mvp_awards) > 1
SeveralMvp(mvp_awards) == Len(mvp_awards) > 1

RECURSIVE ParseRows(_, _, _)
\* The loop of parse_num_mvp from row i on, with the years collected so far.
ParseRows(rs, maxMvp, years) ==
    IF rs = <<>> THEN [status |-> "returned", count |-> Len(years), years |-> years]
    ELSE LET row == Head(rs)
         IN  IF Truthy(row.year) /\ TruthyText(row.awards_td)
             THEN LET mvp_awards == MvpAwards(row.awards_td.text)
                  IN  IF SeveralMvp(mvp_awards)
                      THEN [status |-> "raised", count |-> 0, years |-> <<>>]
                      ELSE IF Len(mvp_awards) = 0
                      THEN ParseRows(Tail(rs), maxMvp, years)
                      ELSE IF ~IsInt(RankText(mvp_awards[1]))
                      THEN [status |-> "raised", count |-> 0, years |-> <<>>]
                      ELSE IF IntOf(RankText(mvp_awards[1])) <= maxMvp
                      THEN ParseRows(Tail(rs), maxMvp, Append(years, row.year))
                      ELSE ParseRows(Tail(rs), maxMvp, years)
             ELSE ParseRows(Tail(rs), maxMvp, years)

\* The table lists one season per row, in order: row i either links its
\* season label or has no year link.
SeasonOfRow == <<"1990-91", "1991-92", "1992-93", "1993-94">>
YearLabels  == {SeasonOfRow[i] : i \in 1..Len(SeasonOfRow)}
YearCell(linked, i) == IF linked THEN SeasonOfRow[i] ELSE None

\* Season rows link their year; their awards cell is missing or holds up to
\* MaxTokens tokens joined by commas. Rows with no year link (headers,
\* career totals) have no awards cell, or one with one or two MVP tokens.
MvpRows ==
    {MvpRow(TRUE, NoTag, <<>>)}
    \cup {MvpRow(TRUE, Tag(Join(ts)), ts) : ts \in SeqsUpTo(AwardTokens, MaxTokens)}
    \cup {MvpRow(FALSE, NoTag, <<>>)}
    \cup {MvpRow(FALSE, Tag(Join(ts)), ts) : ts \in {<<MVP1>>, <<MVP1, MVP12>>}}

MaxMvps == {1, 12}

ParseNumMvp ==
    /\ pc = "idle"
    /\ \E rs \in SeqsUpTo(MvpRows, MaxRows), m \in MaxMvps :
          /\ rows' = [i \in 1..Len(rs) |-> [rs[i] EXCEPT !.year = YearCell(@, i)]]
          /\ max_mvp' = m
          /\ mvp_out' = ParseRows(rows', m, <<>>)
    /\ pc' = "done"
    /\ UNCHANGED <<lbVars, clsVars, rankVars>>

----------------------------------------------------------------------------
(* get_top_regular_season_per_players and get_top_playoff_per_players      *)

MaxLbRows    == 9   \* body rows of a full roster table (rows drawn from LongRows)
MaxMixedRows == 3   \* body rows of a table that may hold any kind of row

RegularTopMinutes == 8
PlayoffTopMinutes == 5
DefaultTopN       == 5

\* The table is looked up after the comment delimiters are removed (lines
\* 68-72), so a table inside an HTML comment is found like any other.
\* A cell of a body row: no such td, a td whose stripped text is empty, or a
\* td whose text reads as the number val (minutes; efficiency in tenths).
NoCell    == [kind |-> "none", val |-> 0]
BlankCell == [kind |-> "blank", val |-> 0]
NumCell(v) == [kind |-> "num", val |-> v]

\* A body row: whether the name cell holds a link, the minutes cell, the
\* efficiency cell.
LbRow(name_tag, mp, per) == [name_tag |-> name_tag, mp |-> mp, per |-> per]

\* The tuple (name, per, href, minutes) of line 91. The player listed in body
\* row i is named i and linked as i.
Player(name, per, href, minutes) == [name |-> name, per |-> per, href |-> href, minutes |-> minutes]

RECURSIVE CollectPlayers(_, _, _)
\* The loop over table.select('tbody tr') from body row i on.
CollectPlayers(trs, i, acc) ==
    IF i > Len(trs) THEN [status |-> "returned", players |-> acc]
    ELSE LET row == trs[i]
         IN  IF row.per.kind = "none"
             THEN [status |-> "raised", players |-> <<>>]      \* None has no .text
             ELSE IF row.per.kind = "blank"
             THEN CollectPlayers(trs, i + 1, acc)
             ELSE IF row.name_tag /\ row.mp.kind # "none"
             THEN IF row.mp.kind = "blank"
                  THEN [status |-> "raised", players |-> <<>>]  \* int('')
                  ELSE CollectPlayers(trs, i + 1,
                           Append(acc, Player(i, row.per.val, i, row.mp.val)))
             ELSE CollectPlayers(trs, i + 1, acc)

RECURSIVE InsertDesc(_, _, _)
\* x placed after every element of the descending sequence s whose key is
\* at least x's: one step of a stable descending sort.
InsertDesc(s, x, key) ==
    IF s = <<>> THEN <<x>>
    ELSE IF Head(s)[key] >= x[key] THEN <<Head(s)>> \o InsertDesc(Tail(s), x, key)
    ELSE <<x>> \o s

RECURSIVE SortedDesc(_, _)
\* sorted(s, key=..., reverse=True): descending, equal keys keep their order.
SortedDesc(s, key) ==
    IF s = <<>> THEN <<>>
    ELSE InsertDesc(SortedDesc(SubSeq(s, 1, Len(s) - 1), key), s[Len(s)], key)

TopMinutesUnsorted(ps, k) == Take(ps, k)

\* sorted(players, key=lambda x: x[3], reverse=True)[:k]
TopMinutesPlayers(ps, k) == Take(SortedDesc(ps, "minutes"), k)

\* sorted(top_minutes_players, key=lambda x: x[1], reverse=True)[:top_n]
TopPerPlayers(ps, n) == Take(SortedDesc(ps, "per"), n)

NoTable == [tag |-> FALSE, trs |-> <<>>]
Table(trs) == [tag |-> TRUE, trs |-> trs]

\* Lines 72-97 and 108-133 with the prefix length k.
TopPlayers(tbl, k, n) ==
    IF ~tbl.tag THEN [status |-> "returned", players |-> <<>>, result |-> <<>>]
    ELSE LET c == CollectPlayers(tbl.trs, 1, <<>>)
         IN  IF c.status = "raised"
             THEN [status |-> "raised", players |-> <<>>, result |-> <<>>]
             ELSE [status |-> "returned", players |-> c.players,
                   result |-> TopPerPlayers(TopMinutesPlayers(c.players, k), n)]

\* Well-formed rows: many minutes with a low or a middling rating, few minutes
\* with the highest rating.
GoodRows == {LbRow(TRUE, NumCell(30), NumCell(100)),
             LbRow(TRUE, NumCell(30), NumCell(200)),
             LbRow(TRUE, NumCell(10), NumCell(300))}
\* Rows with a missing or blank field.
BadRows == {LbRow(TRUE, NumCell(30), BlankCell),
            LbRow(TRUE, NumCell(30), NoCell),
            LbRow(FALSE, NumCell(30), NumCell(200)),
            LbRow(TRUE, NoCell, NumCell(200)),
            LbRow(TRUE, BlankCell, NumCell(200))}

\* The rows of full roster tables: a regular with a low rating, a reserve
\* with few minutes and the highest rating.
LongRows == {LbRow(TRUE, NumCell(30), NumCell(100)),
             LbRow(TRUE, NumCell(10), NumCell(300))}

Tables ==
    {NoTable}
    \cup {Table(trs) : trs \in SeqsUpTo(LongRows, MaxLbRows)}
    \cup {Table(trs) : trs \in SeqsUpTo(GoodRows \cup BadRows, MaxMixedRows)}

TopNs == {0, 2, DefaultTopN, RegularTopMinutes + 1}

GetTopRegularSeasonPerPlayers ==
    /\ pc = "idle"
    /\ \E tbl \in Tables, n \in TopNs :
          LET r == TopPlayers(tbl, RegularTopMinutes, n)
          IN  /\ variant' = "regular"
              /\ table' = tbl
              /\ top_n' = n
              /\ players' = r.players
              /\ lb_out' = [status |-> r.status, result |-> r.result]
    /\ pc' = "done"
    /\ UNCHANGED <<mvpVars, clsVars, rankVars>>

GetTopPlayoffPerPlayers ==
    /\ pc = "idle"
    /\ \E tbl \in Tables, n \in TopNs :
          LET r == TopPlayers(tbl, PlayoffTopMinutes, n)
          IN  /\ variant' = "playoff"
              /\ table' = tbl
              /\ top_n' = n
              /\ players' = r.players
              /\ lb_out' = [status |-> r.status, result |-> r.result]
    /\ pc' = "done"
    /\ UNCHANGED <<mvpVars, clsVars, rankVars>>

----------------------------------------------------------------------------
(* parse_team_playoff_result                                               *)

MaxParas == 2       \* paragraphs in the metadata block

\* The text of a paragraph is a sequence of words; every word below is free
\* of blanks and none is part of another, so a phrase is in the text exactly
\* when its words occur in it side by side.
LowerWord(w) ==
    CASE w = "NBA" -> "nba"
      [] w = "Playoffs" -> "playoffs"
      [] w = "Won" -> "won"
      [] w = "The" -> "the"
      [] w = "Boston" -> "boston"
      [] w = "Celtics" -> "celtics"
      [] w = "Finals" -> "finals"
      [] w = "Conference" -> "conference"
      [] w = "Eastern" -> "eastern"
      [] w = "Western" -> "western"
      [] OTHER -> w

KeepCase(text) == text

\* p.text.lower()
LowerText(text) == [k \in 1..Len(text) |-> LowerWord(text[k])]

\* "NBA" in p.text and "Playoffs" in p.text
IsPlayoffsParagraph(text) == Contains(text, <<"NBA">>) /\ Contains(text, <<"Playoffs">>)

RECURSIVE FirstPlayoffsParagraph(_)
\* next((p for p in meta_div.find_all('p') if ...), None), as <<p>> or <<>>.
FirstPlayoffsParagraph(ps) ==
    IF ps = <<>> THEN <<>>
    ELSE IF IsPlayoffsParagraph(Head(ps)) THEN <<Head(ps)>>
    ELSE FirstPlayoffsParagraph(Tail(ps))

WonFinals   == <<"won", "nba", "finals">>
WonWestern  == <<"won", "nba", "western", "conference", "finals">>
WonEastern  == <<"won", "nba", "eastern", "conference", "finals">>
ConfFinals  == <<"conference", "finals">>

ClassifyConferenceFirst(text) ==
    IF Contains(text, ConfFinals) THEN "conference finals"
    ELSE IF Contains(text, WonFinals) THEN "champions"
    ELSE "other"

\* The if/elif chain of lines 151-158 on the lower-cased text.
ClassifyText(text) ==
    IF Contains(text, WonFinals) THEN "champions"
    ELSE IF Contains(text, WonWestern) \/ Contains(text, WonEastern) THEN "conference champions"
    ELSE IF Contains(text, ConfFinals) THEN "conference finals"
    ELSE "other"

NoMeta == [tag |-> FALSE, ps |-> <<>>]
Meta(ps) == [tag |-> TRUE, ps |-> ps]

PlayoffResult(meta) ==
    IF ~meta.tag THEN "other"
    ELSE LET playoffs_paragraph == FirstPlayoffsParagraph(meta.ps)
         IN  IF playoffs_paragraph = <<>> THEN "other"
             ELSE ClassifyText(LowerText(playoffs_paragraph[1]))

\* Paragraph texts: an optional "NBA Playoffs" heading, then result phrases.
Heading == <<"NBA", "Playoffs">>
CelticsWonTheFinals == <<"The", "Boston", "Celtics", "won", "the", "NBA", "Finals">>
LostInEasternFinals == <<"lost", "in", "NBA", "Eastern", "Conference", "Finals">>
Phrases == {<<"Won", "NBA", "Finals">>,
            <<"Won", "NBA", "Eastern", "Conference", "Finals">>,
            <<"Won", "NBA", "Western", "Conference", "Finals">>,
            CelticsWonTheFinals,
            LostInEasternFinals}
\* A paragraph under the heading holds no, one or two phrases, one without
\* the heading holds one phrase or nothing.
ParagraphTexts ==
    {<<>>, Heading}
    \cup Phrases
    \cup {Heading \o p : p \in Phrases}
    \cup {Concat(<<Heading, p, q>>) : p \in Phrases, q \in Phrases}

MetaDivs == {NoMeta} \cup {Meta(ps) : ps \in SeqsUpTo(ParagraphTexts, MaxParas)}

ParseTeamPlayoffResult ==
    /\ pc = "idle"
    /\ \E meta \in MetaDivs :
          /\ meta_div' = meta
          /\ playoff_out' = PlayoffResult(meta)
    /\ pc' = "done"
    /\ UNCHANGED <<mvpVars, lbVars, rankVars>>

----------------------------------------------------------------------------
(* rank_on_team                                                            *)

MaxSeason   == 1    \* entries of the regular-season list
MaxPlayoffs == 2    \* entries of the playoff list

\* A leaderboard entry (player, per, url, minutes); minutes is not read here.
Entry(player, per, url) == [player |-> player, per |-> per, url |-> url, minutes |-> 30]

\* A combined record, kept in the dictionary's insertion order. A weight in
\* hundredths times a rating in tenths is a score in thousandths.
Record(url, name, season_per, playoff_per, combined_per) ==
    [url |-> url, name |-> name, season_per |-> season_per,
     playoff_per |-> playoff_per, combined_per |-> combined_per]

HasKey(comb, url) == \E k \in 1..Len(comb) : comb[k].url = url
KeyIndex(comb, url) == CHOOSE k \in 1..Len(comb) : comb[k].url = url

\* combined[url] = value: a new key goes last, an old one keeps its place.
SetItem(comb, url, value) ==
    IF HasKey(comb, url) THEN [comb EXCEPT ![KeyIndex(comb, url)] = value]
    ELSE Append(comb, value)

RECURSIVE AddSeason(_, _, _)
\* The loop of lines 169-170.
AddSeason(comb, es, sw) ==
    IF es = <<>> THEN comb
    ELSE LET e == Head(es)
         IN  AddSeason(SetItem(comb, e.url, Record(e.url, e.player, e.per, 0, e.per * sw)),
                       Tail(es), sw)

PlayoffOnlyUnweighted(e, pw) == Record(e.url, e.player, 0, e.per, e.per * 100)

\* Line 178: the record of a player seen in the playoff list only.
PlayoffOnly(e, pw) == Record(e.url, e.player, 0, e.per, e.per * pw)

RECURSIVE AddPlayoffs(_, _, _)
\* The loop of lines 173-178.
AddPlayoffs(comb, es, pw) ==
    IF es = <<>> THEN comb
    ELSE LET e == Head(es)
         IN  IF HasKey(comb, e.url)
             THEN LET k == KeyIndex(comb, e.url)
                  IN  AddPlayoffs([comb EXCEPT ![k].playoff_per = e.per,
                                               ![k].combined_per = @ + e.per * pw],
                                  Tail(es), pw)
             ELSE AddPlayoffs(SetItem(comb, e.url, PlayoffOnly(e, pw)), Tail(es), pw)

\* round(x, 2) of a score in thousandths, in hundredths: to the nearest,
\* an exact half to the even neighbour. The weights drawn below never give
\* an exact half, the one case binary floating point may round either way.
Round2(x) ==
    LET q == x \div 10
        r == x % 10
    IN  IF r < 5 THEN q
        ELSE IF r > 5 THEN q + 1
        ELSE IF q % 2 = 0 THEN q ELSE q + 1

\* Line 181: (name, round(combined_per, 2), url) per record.
ResultList(comb) ==
    [k \in 1..Len(comb) |->
        [name |-> comb[k].name, combined_per |-> Round2(comb[k].combined_per), url |-> comb[k].url]]

Abs(x) == IF x < 0 THEN -x ELSE x

WithRank(p, rank) == [name |-> p.name, combined_per |-> p.combined_per, url_id |-> p.url, rank |-> rank]

CoRankAnyNeighbour(sp, i, margin) ==
    i >= 1 /\ Abs(sp[i + 1].combined_per - sp[i].combined_per) <= margin

\* Line 191, i counted from 0 as in the code; the difference of the two
\* rounded scores is taken exactly, in hundredths.
CoRank(sp, i, margin) ==
    i = 1 /\ Abs(sp[i + 1].combined_per - sp[1].combined_per) <= margin

RECURSIVE RankLoop(_, _, _, _)
\* The loop of lines 188-196 from index i (from 0) on.
RankLoop(sp, i, rs, margin) ==
    IF i >= Len(sp) THEN rs
    ELSE IF i = 0
    THEN RankLoop(sp, i + 1, Append(rs, WithRank(sp[1], "1")), margin)
    ELSE IF CoRank(sp, i, margin)
    THEN RankLoop(sp, i + 1,
                  Append([rs EXCEPT ![1].rank = "1/2"], WithRank(sp[i + 1], "1/2")), margin)
    ELSE RankLoop(sp, i + 1, Append(rs, WithRank(sp[i + 1], ToString(i + 1))), margin)

LookupFirstRecord(rs, id) == IF rs = <<>> THEN None ELSE rs[1].rank

\* Lines 198-199.
Lookup(rs, id) ==
    LET hits == SelectSeq(rs, LAMBDA tup : tup.url_id = id)
    IN  IF hits = <<>> THEN None ELSE hits[1].rank

Urls    == {"a", "b", "c"}
PerVals == {198, 200}
Entries == {Entry(u, p, u) : u \in Urls, p \in PerVals}
\* (season_per_weight, playoff_per_weight) in hundredths.
Weights == {<<70, 30>>, <<51, 49>>}
\* co_margin in hundredths.
CoMargins == {0, 50}

RankOnTeam ==
    /\ pc = "idle"
    /\ \E id \in Urls \cup {"x"}, rs \in SeqsUpTo(Entries, MaxSeason),
          ps \in SeqsUpTo(Entries, MaxPlayoffs), w \in Weights, m \in CoMargins :
          LET comb == AddPlayoffs(AddSeason(<<>>, rs, w[1]), ps, w[2])
              sp   == SortedDesc(ResultList(comb), "combined_per")
              rk   == RankLoop(sp, 0, <<>>, m)
          IN  /\ org_url_id' = id
              /\ reg_season' = rs
              /\ playoffs' = ps
              /\ season_per_weight' = w[1]
              /\ playoff_per_weight' = w[2]
              /\ co_margin' = m
              /\ combined' = comb
              /\ sorted_players' = sp
              /\ ranks' = rk
              /\ player_rank' = Lookup(rk, id)
    /\ pc' = "done"
    /\ UNCHANGED <<mvpVars, lbVars, clsVars>>

InitIdle ==
    /\ pc = "idle"
    /\ rows = <<>> /\ max_mvp = 0 /\ mvp_out = [status |-> "none", count |-> 0, years |-> <<>>]
    /\ variant = None /\ table = NoTable /\ top_n = 0 /\ players = <<>> /\ lb_out = [status |-> "none", result |-> <<>>]
    /\ meta_div = NoMeta /\ playoff_out = None
    /\ org_url_id = None /\ reg_season = <<>> /\ playoffs = <<>>
    /\ season_per_weight = 0 /\ playoff_per_weight = 0 /\ co_margin = 0
    /\ combined = <<>> /\ sorted_players = <<>> /\ ranks = <<>> /\ player_rank = None

NextMvp == ParseNumMvp
SpecMvp == InitIdle /\ [][NextMvp]_vars

(* Properties of parse_num_mvp.                                            *)

\* The rank an MVP token encodes, read off the token itself.
TokenRank(t) == IF t = MVP1 THEN 1 ELSE IF t = MVP12 THEN 12 ELSE 0
IsMvpToken(t) == t \in {MVP1, MVP12}
NumMvpTokens(row) == Cardinality({k \in 1..Len(row.tokens) : IsMvpToken(row.tokens[k])})
TheMvpToken(row) == row.tokens[CHOOSE k \in 1..Len(row.tokens) : IsMvpToken(row.tokens[k])]

HasYear(row) == row.year \in YearLabels
HasAwardsText(row) == row.awards_td.tag /\ Len(row.awards_td.text) > 0

\* Row i has a year, awards text and exactly one MVP-k token with k <= max_mvp.
Qualifies(i) ==
    /\ HasYear(rows[i])
    /\ HasAwardsText(rows[i])
    /\ NumMvpTokens(rows[i]) = 1
    /\ TokenRank(TheMvpToken(rows[i])) <= max_mvp

QualifyingRows == {i \in 1..Len(rows) : Qualifies(i)}
\* The j-th qualifying row in row order.
NthQualifying(j) ==
    CHOOSE i \in QualifyingRows : Cardinality({k \in QualifyingRows : k < i}) = j - 1

\* C4: on a table in which no row carries more than one MVP token,
\* parse_num_mvp returns (count, years) where years lists, in row order and
\* once per row, the year of exactly the rows that have a year, awards text
\* and one MVP-k token with k <= max_mvp, and count is the length of years.
C4_YearsOfQualifyingRows ==
    (pc = "done" /\ \A i \in 1..Len(rows) : NumMvpTokens(rows[i]) <= 1) =>
        /\ mvp_out.status = "returned"
        /\ Len(mvp_out.years) = Cardinality(QualifyingRows)
        /\ \A j \in 1..Len(mvp_out.years) : mvp_out.years[j] = rows[NthQualifying(j)].year
        /\ mvp_out.count = Len(mvp_out.years)

\* Two qualifying rows with different years around a row whose only MVP
\* token ranks above the threshold.
C4_Witness ==
    /\ pc = "done" /\ max_mvp = 12 /\ Len(rows) = 2
    /\ \A i \in 1..Len(rows) : NumMvpTokens(rows[i]) <= 1
    /\ rows[1].tokens = <<DPOY2, MVP12>>
    /\ rows[2].tokens = <<MVP1>>
    /\ mvp_out.years = <<"1990-91", "1991-92">>

C4_WitnessRejected ==
    /\ pc = "done" /\ max_mvp = 1 /\ Len(rows) = 2
    /\ rows[1].year = "1990-91" /\ rows[1].tokens = <<MVP12>>
    /\ rows[2].year = "1991-92" /\ rows[2].tokens = <<MVP1>>
    /\ mvp_out.years = <<"1991-92">>

SomeRowHasSeveralMvp == \E i \in 1..Len(rows) : NumMvpTokens(rows[i]) >= 2

\* C6 as stated: a row whose awards text holds two or more MVP-k tokens
\* makes parse_num_mvp raise, whatever else the row holds (a year label or
\* none) and whatever rows surround it.
C6_RaisesRegardlessOfRow ==
    (pc = "done" /\ SomeRowHasSeveralMvp) => mvp_out.status = "raised"

\* C6 amended: a row that has a year label and whose awards text holds two
\* or more MVP-k tokens makes parse_num_mvp raise, whatever the ranks, the
\* threshold and the rows around it; without a year label the row is skipped.
C6_RaisesWhenRowHasYear ==
    (pc = "done" /\ \E i \in 1..Len(rows) : HasYear(rows[i]) /\ NumMvpTokens(rows[i]) >= 2)
        => mvp_out.status = "raised"

\* A qualifying row comes first, the row with two MVP tokens second.
C6_Witness ==
    /\ pc = "done" /\ Len(rows) = 2
    /\ Qualifies(1)
    /\ HasYear(rows[2]) /\ rows[2].tokens = <<MVP12, MVP1>>
    /\ mvp_out.status = "raised"

\* The case the amendment leaves out: two MVP tokens in a row with no year.
C6_WitnessSkipped ==
    /\ pc = "done" /\ Len(rows) = 1
    /\ rows[1].year = None /\ rows[1].tokens = <<MVP1, MVP12>>
    /\ mvp_out.status = "returned" /\ mvp_out.count = 0

NextLb == GetTopRegularSeasonPerPlayers \/ GetTopPlayoffPerPlayers
SpecLb == InitIdle /\ [][NextLb]_vars

(* Properties of the leaderboard extractors.                               *)

PrefixLen == IF variant = "regular" THEN 8 ELSE 5
MinOf(a, b) == IF a < b THEN a ELSE b

\* The collected rows that come before collected row i when ordered by
\* minutes, most first, equal minutes in row order.
AheadByMinutes(i) ==
    {j \in 1..Len(players) :
        \/ players[j].minutes > players[i].minutes
        \/ players[j].minutes = players[i].minutes /\ j < i}
\* The K collected rows with the most minutes.
MostMinutes == {players[i] : i \in {k \in 1..Len(players) : Cardinality(AheadByMinutes(k)) < PrefixLen}}
Returned == {lb_out.result[j] : j \in 1..Len(lb_out.result)}

C3_WitnessPlayoff ==
    /\ pc = "done" /\ variant = "playoff" /\ lb_out.status = "returned"
    /\ Len(players) = 6 /\ top_n = 9
    /\ Len(lb_out.result) = 5

\* C7 as stated: no row with a missing or malformed field makes an
\* extractor fail: the row is skipped and a result is returned.
C7_MalformedRowNeverFatal ==
    pc = "done" => lb_out.status = "returned"

NextCls == ParseTeamPlayoffResult
SpecCls == InitIdle /\ [][NextCls]_vars

(* Properties of parse_team_playoff_result.                                *)

Qualifying == {k \in 1..Len(meta_div.ps) : IsPlayoffsParagraph(meta_div.ps[k])}
\* The lower-cased text of the first paragraph holding "NBA" and "Playoffs".
Deciding == LowerText(meta_div.ps[CHOOSE k \in Qualifying : \A j \in Qualifying : k <= j])

\* C5: the result is one of four values; it is "other" without a metadata
\* block or a paragraph holding both "NBA" and "Playoffs"; otherwise the
\* first such paragraph alone decides, lower-cased, by the first test that
\* matches: "won nba finals", "won nba western/eastern conference finals",
\* "conference finals", else "other".
C5_FirstParagraphFirstMatch ==
    pc = "done" =>
        /\ playoff_out \in {"champions", "conference champions", "conference finals", "other"}
        /\ (~meta_div.tag \/ Qualifying = {}) => playoff_out = "other"
        /\ (meta_div.tag /\ Qualifying # {}) =>
              LET won  == Contains(Deciding, WonFinals)
                  conf == Contains(Deciding, WonWestern) \/ Contains(Deciding, WonEastern)
                  cf   == Contains(Deciding, ConfFinals)
              IN  /\ won => playoff_out = "champions"
                  /\ (~won /\ conf) => playoff_out = "conference champions"
                  /\ (~won /\ ~conf /\ cf) => playoff_out = "conference finals"
                  /\ (~won /\ ~conf /\ ~cf) => playoff_out = "other"

\* The first paragraph does not qualify, the second decides "conference
\* champions" although it also holds "conference finals".
C5_Witness ==
    /\ pc = "done" /\ meta_div.tag /\ Len(meta_div.ps) = 2
    /\ meta_div.ps[1] = <<"Won", "NBA", "Finals">>
    /\ meta_div.ps[2] = Heading \o <<"Won", "NBA", "Western", "Conference", "Finals">>
    /\ playoff_out = "conference champions"

\* A later paragraph would give "champions", the first qualifying one decides.
C5_WitnessLaterIgnored ==
    /\ pc = "done" /\ meta_div.tag /\ Len(meta_div.ps) = 2
    /\ meta_div.ps[1] = Heading
    /\ meta_div.ps[2] = Heading \o <<"Won", "NBA", "Finals">>
    /\ playoff_out = "other"

OnlyParagraph(text) == meta_div.tag /\ meta_div.ps = <<text>>

\* C9 as stated: "The Boston Celtics won the NBA Finals" gives "champions",
\* "lost in NBA Eastern Conference Finals" gives "conference finals", no
\* qualifying paragraph gives "other".
C9_SpecExamples ==
    pc = "done" =>
        /\ OnlyParagraph(CelticsWonTheFinals) => playoff_out = "champions"
        /\ OnlyParagraph(LostInEasternFinals) => playoff_out = "conference finals"
        /\ (~meta_div.tag \/ Qualifying = {}) => playoff_out = "other"

\* C9 amended: under the heading "NBA Playoffs", "Won NBA Finals" gives
\* "champions" and "lost in NBA Eastern Conference Finals" gives "conference
\* finals"; the two texts of the claim on their own hold no "Playoffs" and
\* give "other", as does "won the NBA Finals" under the heading and any
\* document with no qualifying paragraph.
C9_ExamplesWithHeading ==
    pc = "done" =>
        /\ OnlyParagraph(Heading \o <<"Won", "NBA", "Finals">>) => playoff_out = "champions"
        /\ OnlyParagraph(Heading \o LostInEasternFinals) => playoff_out = "conference finals"
        /\ OnlyParagraph(CelticsWonTheFinals) => playoff_out = "other"
        /\ OnlyParagraph(LostInEasternFinals) => playoff_out = "other"
        /\ OnlyParagraph(Heading \o CelticsWonTheFinals) => playoff_out = "other"
        /\ (~meta_div.tag \/ Qualifying = {}) => playoff_out = "other"

C9_Witness ==
    /\ pc = "done"
    /\ OnlyParagraph(Heading \o <<"Won", "NBA", "Finals">>)
    /\ playoff_out = "champions"

C9_WitnessConferenceFinals ==
    /\ pc = "done"
    /\ OnlyParagraph(Heading \o LostInEasternFinals)
    /\ playoff_out = "conference finals"

C9_WitnessCeltics ==
    /\ pc = "done"
    /\ OnlyParagraph(CelticsWonTheFinals)
    /\ playoff_out = "other"

NextRank == RankOnTeam
SpecRank == InitIdle /\ [][NextRank]_vars

(* Properties of rank_on_team.                                             *)

PositionLabels == <<"1", "2", "3", "4", "5", "6", "7", "8">>
NumCoRanked == Cardinality({k \in 1..Len(ranks) : ranks[k].rank = "1/2"})
\* The two best rounded scores differ by at most the margin.
TopTwoClose ==
    /\ Len(sorted_players) >= 2
    /\ Abs(sorted_players[2].combined_per - sorted_players[1].combined_per) <= co_margin

\* C1: with the records sorted by rounded score, descending, the first is
\* labelled "1" and the second "2", or both "1/2" when their scores differ
\* by at most co_margin; every later record is labelled with its 1-based
\* position however close its score. "1/2" labels zero or two records,
\* none of them third or later.
C1_CoRankTopTwoOnly ==
    pc = "done" =>
        /\ Len(ranks) = Len(sorted_players)
        /\ \A k \in 1..(Len(sorted_players) - 1) :
               sorted_players[k].combined_per >= sorted_players[k + 1].combined_per
        /\ \A k \in 1..Len(ranks) :
               /\ ranks[k].url_id = sorted_players[k].url
               /\ ranks[k].combined_per = sorted_players[k].combined_per
               /\ k <= 2 => ranks[k].rank = IF TopTwoClose THEN "1/2" ELSE PositionLabels[k]
               /\ k >= 3 => ranks[k].rank = PositionLabels[k]
        /\ NumCoRanked \in {0, 2}

\* Three records whose scores all lie within the margin of their neighbour:
\* the first two share "1/2", the third is "3".
C1_Witness ==
    /\ pc = "done" /\ Len(ranks) = 3 /\ co_margin = 50
    /\ ranks[1].rank = "1/2" /\ ranks[2].rank = "1/2" /\ ranks[3].rank = "3"
    /\ ranks[1].combined_per > ranks[2].combined_per
    /\ ranks[2].combined_per - ranks[3].combined_per <= co_margin

C1_WitnessApart ==
    /\ pc = "done" /\ Len(ranks) = 3 /\ co_margin = 50
    /\ ranks[1].rank = "1" /\ ranks[2].rank = "2" /\ ranks[3].rank = "3"
    /\ ranks[2].combined_per = ranks[3].combined_per

UrlsOf(es) == {es[k].url : k \in 1..Len(es)}
UniqueUrls(es) == Cardinality(UrlsOf(es)) = Len(es)
AllIds == UrlsOf(reg_season) \cup UrlsOf(playoffs)
\* The rating id has in the last entry of es that names it, 0 without one.
LastPer(es, id) ==
    IF id \in UrlsOf(es)
    THEN es[CHOOSE k \in 1..Len(es) : es[k].url = id /\ \A j \in (k + 1)..Len(es) : es[j].url # id].per
    ELSE 0
RecordsOf(id) == {k \in 1..Len(combined) : combined[k].url = id}

\* C2: with identifiers unique within each list, there is exactly one
\* combined record per identifier of either list, scored season rating x
\* season weight + playoff rating x playoff weight, a missing rating being 0.
C2_OneRecordWeightedSum ==
    (pc = "done" /\ UniqueUrls(reg_season) /\ UniqueUrls(playoffs)) =>
        /\ Len(combined) = Cardinality(AllIds)
        /\ \A id \in AllIds :
               /\ Cardinality(RecordsOf(id)) = 1
               /\ \A k \in RecordsOf(id) :
                      /\ combined[k].season_per = LastPer(reg_season, id)
                      /\ combined[k].playoff_per = LastPer(playoffs, id)
                      /\ combined[k].combined_per =
                            LastPer(reg_season, id) * season_per_weight
                            + LastPer(playoffs, id) * playoff_per_weight

\* Weights 0.7/0.3, margin 0.5: a in the season list only (20.0 gives 14.0),
\* b in the playoff list only (20.0 gives 6.0); a ranks "1", b "2".
C2_Witness ==
    /\ pc = "done" /\ season_per_weight = 70 /\ playoff_per_weight = 30 /\ co_margin = 50
    /\ reg_season = <<Entry("a", 200, "a")>> /\ playoffs = <<Entry("b", 200, "b")>>
    /\ Len(combined) = 2
    /\ combined[1].combined_per = 14000 /\ combined[2].combined_per = 6000
    /\ org_url_id = "a" /\ player_rank = "1" /\ ranks[2].rank = "2"

\* C8 as stated: when an identifier occurs more than once in one list, it
\* still has one combined record, whose ratings and score come from the last
\* entry of each list only, nothing accumulated from the overwritten entries.
C8_DuplicatesOverwrite ==
    pc = "done" =>
        \A id \in AllIds :
            /\ Cardinality(RecordsOf(id)) = 1
            /\ \A k \in RecordsOf(id) :
                   /\ combined[k].season_per = LastPer(reg_season, id)
                   /\ combined[k].playoff_per = LastPer(playoffs, id)
                   /\ combined[k].combined_per =
                         LastPer(reg_season, id) * season_per_weight
                         + LastPer(playoffs, id) * playoff_per_weight

\* C10: the target's rank label is returned when the target is in either
\* list, None when it is in neither (both lists may be empty).
C10_RankOfTargetOrNone ==
    pc = "done" =>
        /\ org_url_id \in AllIds =>
              /\ Cardinality({k \in 1..Len(ranks) : ranks[k].url_id = org_url_id}) = 1
              /\ \A k \in 1..Len(ranks) :
                     ranks[k].url_id = org_url_id => player_rank = ranks[k].rank
        /\ org_url_id \notin AllIds => player_rank = None

\* The target is second of three and shares the co-rank label.
C10_Witness ==
    /\ pc = "done" /\ Len(ranks) = 3
    /\ ranks[2].url_id = org_url_id
    /\ player_rank = "1/2"

C10_WitnessAbsent ==
    /\ pc = "done" /\ Len(ranks) = 3
    /\ org_url_id = "x" /\ player_rank = None

C10_WitnessEmpty ==
    /\ pc = "done" /\ reg_season = <<>> /\ playoffs = <<>>
    /\ player_rank = None

====
